---- MODULE Spec2Model ----
(***************************************************************************)
(* Model of the task-tracking backend (src/app): the Task Store and User   *)
(* Store (two MongoDB collections), the token service, the access gate and *)
(* the request handlers of routes.py.                                      *)
(*                                                                         *)
(* Granularity: the stores are shared by every server process, so the      *)
(* handlers of different requests interleave between store operations.     *)
(* One action is one store operation together with the local code that     *)
(* precedes it in the handler; a handler that issues several store         *)
(* operations is a sequence of such actions, linked by the request's pc.   *)
(*                                                                         *)
(* Documents are functions from field names to values (a Python dict); a   *)
(* collection is a set of documents, each with its own _id.  A find_one    *)
(* result, and every Optional value, is a set with at most one element.    *)
(* Dates are day numbers (ISO date strings compare as their days do) and   *)
(* the clock counts hours.                                                 *)
(***************************************************************************)
EXTENDS Integers, Sequences, FiniteSets, TLC

VARIABLES users, tasks, nextId, now, ops, cl

vars == <<users, tasks, nextId, now, ops, cl>>

(***************************** bounds **************************************)
MaxClients == 2      \* clients, each with at most one request in flight
MaxOps     == 2      \* requests started in one behaviour
MaxTicks   == 1      \* clock advances (one day each)

Clients == 1..MaxClients
NoDate  == 0         \* an absent Optional[str] date parameter

\* seed_data.py fills the days range(1, 4) before the day it runs on
SeedDays == 3

\* the day the first request arrives on, and the clock at its start
Day0   == SeedDays + 1
Clock0 == (Day0 - 1) * 24

\* the days the requests name: the last seeded day and the day after it
ReqDates == {Day0 - 1, Day0}

(************************* dictionaries ************************************)
\* dict.get(k, default)
Get(d, k, default) == IF k \in DOMAIN d THEN d[k] ELSE default

\* dict.update(u), and the effect of {"$set": u} on one document
Overlay(d, u) ==
    [k \in DOMAIN d \cup DOMAIN u |-> IF k \in DOMAIN u THEN u[k] ELSE d[k]]

\* del d[k] for the keys ks, and a {"_id": 0} projection
Without(d, ks) == [k \in DOMAIN d \ ks |-> d[k]]

\* the sub-dictionary on the keys ks
Restrict(d, ks) == [k \in DOMAIN d \cap ks |-> d[k]]

EmptyDoc == [k \in {} |-> ""]

NoId(d) == Without(d, {"_id"})

\* the document of smallest _id in a non-empty set (natural order)
First(S) == CHOOSE d \in S : \A e \in S : d["_id"] <= e["_id"]

\* the document of a non-empty set that sorts first under sort=[("date", -1)]
Latest(S) == CHOOSE d \in S : \A e \in S :
                 \/ d["date"] > e["date"]
                 \/ d["date"] = e["date"] /\ d["_id"] <= e["_id"]

\* list(cursor.sort("date", -1).limit(n)) with the _id projected away
RECURSIVE SortDesc(_, _)
SortDesc(S, n) ==
    IF S = {} \/ n = 0 THEN <<>>
    ELSE LET d == Latest(S) IN <<NoId(d)>> \o SortDesc(S \ {d}, n - 1)

(*************************** Task Store ************************************)
TaskKey(d) == <<d["user_id"], d["date"]>>

\* db.tasks.create_index([("user_id", 1), ("date", 1)], unique=True):
\* may the collection S take the document d beside what it holds?
IndexAdmitsNoCheck(S, d) == TRUE
IndexAdmits(S, d) == \A e \in S : TaskKey(e) # TaskKey(d)

\* find({"user_id": uid, "date": date})
TasksAtAnyUser(uid, date) == {d \in tasks : d["date"] = date}
TasksAt(uid, date) == {d \in tasks : d["user_id"] = uid /\ d["date"] = date}

(*************************** User Store ************************************)
UsersByUid(uid)     == {u \in users : u["uid"] = uid}
UsersByEmail(email) == {u \in users : u["email"] = email}

\* find_one: the first match or nothing
FindOne(S) == IF S = {} THEN {} ELSE {First(S)}

StickyFields == {"assign_website", "task_assign_no", "other_tasks"}

(************************** Token Service **********************************)
JWT_SECRET       == "your-secret-key-change-this"
JWT_EXPIRY_HOURS == 24

create_token(uid, email, role) ==
    [uid |-> uid, email |-> email, role |-> role,
     exp |-> now + JWT_EXPIRY_HOURS, iat |-> now, key |-> JWT_SECRET]

\* jwt.decode: the claims, or None on a bad signature or an expired token
verify_token(token) ==
    IF token.key = JWT_SECRET /\ token.exp > now
    THEN {[uid |-> token.uid, email |-> token.email, role |-> token.role]}
    ELSE {}

(***************************** utilities ***********************************)
\* datetime.utcnow().strftime("%Y-%m-%d"): the day the clock is in
get_today_str == (now \div 24) + 1

DayNames == <<"Monday", "Tuesday", "Wednesday", "Thursday", "Friday",
              "Saturday", "Sunday">>

\* strptime(date).strftime("%A")
get_day_name(date) == DayNames[((date - 1) % 7) + 1]

\* str.strip().lower() and str.strip() on the strings the clients send
StripLower(s) ==
    CASE s = " U1@X "  -> "u1@x"
      [] s = "New@X"   -> "new@x"
      [] s = "  "      -> ""
      [] OTHER         -> s

Strip(s) ==
    CASE s = " U1@X "  -> "U1@X"
      [] s = "  "      -> ""
      [] OTHER         -> s

(**************************** responses ************************************)
Reply(status, body) == [status |-> status, body |-> body]
Fail(status)        == Reply(status, EmptyDoc)
NoResp              == Reply(0, EmptyDoc)

(***************************** requests ************************************)
UserKinds  == {"today", "previous", "save", "history"}
AdminKinds == {"listTasks", "upsert", "deleteTask", "createUser",
               "listUsers", "deleteUser", "resetPassword", "export"}

Req(kind, user_id, date, body, limit) ==
    [kind |-> kind, user_id |-> user_id, date |-> date, body |-> body,
     limit |-> limit]

NoReq == Req("none", "", NoDate, EmptyDoc, 0)

TargetUids == {"u1", "u2"}

\* JSON bodies sent to POST /api/tasks/save
SaveBodies ==
    { [status |-> "Completed", total_pages_done |-> 5],
      [date |-> Day0 - 1, note |-> "n2"] }

\* JSON bodies sent to PUT /api/admin/task/{user_id}/{date}
AdminBodies ==
    { [note |-> "n1"],
      [status |-> "Completed", assign_website |-> "w1"],
      [date |-> Day0, note |-> "n2"] }

\* JSON bodies sent to POST /api/admin/create-user
CreateBodies ==
    { [email |-> "New@X", password |-> "newpass", name |-> "New"],
      [email |-> " U1@X ", password |-> "  ", name |-> "Dup"],
      [email |-> " U1@X ", password |-> "newpass", name |-> "Dup"] }

\* JSON bodies sent to PUT /api/admin/user/{uid}/password
PasswordBodies == { [password |-> "changed"], [password |-> "abc"] }

Requests ==
    {Req("me", "", NoDate, EmptyDoc, 0)}
    \cup {Req("today", "", d, EmptyDoc, 0) : d \in {NoDate, Day0 - 1}}
    \cup {Req("previous", "", d, EmptyDoc, 0) : d \in {NoDate, Day0 - 1}}
    \cup {Req("save", "", NoDate, b, 0) : b \in SaveBodies}
    \cup {Req("history", "", NoDate, EmptyDoc, 2)}
    \cup {Req("listTasks", "u1", NoDate, EmptyDoc, 100)}
    \cup {Req("upsert", "u1", Day0, b, 0) : b \in AdminBodies}
    \cup {Req("upsert", "u1", Day0 - 1, b, 0) :
              b \in AdminBodies \ {[note |-> "n1"]}}
    \cup {Req("upsert", "u2", Day0, [note |-> "n1"], 0)}
    \cup {Req("deleteTask", "u1", d, EmptyDoc, 0) : d \in ReqDates}
    \cup {Req("createUser", "", NoDate, b, 0) : b \in CreateBodies}
    \cup {Req("listUsers", "", NoDate, EmptyDoc, 0)}
    \cup {Req("deleteUser", u, NoDate, EmptyDoc, 0) : u \in TargetUids}
    \cup {Req("resetPassword", "u1", NoDate, b, 0) : b \in PasswordBodies}
    \cup {Req("export", "", Day0, EmptyDoc, 0)}

(************************** initial stores *********************************)
\* The accounts that exist before the first request: the service has no
\* operation that creates an admin, so accounts are provisioned in the store.
AdminDoc ==
    [_id |-> 1, uid |-> "a1", email |-> "a1@x", name |-> "Root",
     password |-> "adminpw", role |-> "admin", is_active |-> TRUE]

UserDoc(active, sticky) ==
    Overlay([_id |-> 2, uid |-> "u1", email |-> "u1@x", name |-> "One",
             password |-> "userpw", role |-> "user", is_active |-> active],
            sticky)

Sticky0 ==
    [assign_website |-> "w0", task_assign_no |-> "t0", other_tasks |-> "o0"]

\* the stores before the first request: seeded or not, the user with or
\* without sticky defaults, active or not
InitStores ==
    { [users |-> {AdminDoc, UserDoc(TRUE, Sticky0)},  seeded |-> TRUE],
      [users |-> {AdminDoc, UserDoc(FALSE, Sticky0)}, seeded |-> FALSE],
      [users |-> {AdminDoc, UserDoc(TRUE, EmptyDoc)}, seeded |-> FALSE] }

Client(tok, pc, req, user, loc, resp) ==
    [tok |-> tok, pc |-> pc, req |-> req, user |-> user, loc |-> loc,
     resp |-> resp]

\* seed_data.py: one task of the seed user for each of the SeedDays days
\* before `today`; random.choice takes the option the day offset selects
seed_task(today, i) ==
    [_id              |-> 2 + i,
     user_id          |-> "u1",
     owner_name       |-> "One",
     date             |-> today - i,
     planner          |-> get_day_name(today - i),
     status           |-> <<"Completed", "In Progress", "Pending">>[i],
     assign_website   |-> <<"FleetRabbit", "HeavyVehicleInspection",
                            "Oxmaint">>[i],
     task_assign_no   |-> ToString(4 + i) \o " pages",
     other_tasks      |-> "Research on " \o <<"SEO", "Competitors",
                                              "Keywords">>[i],
     task_updates     |-> "Worked on " \o ToString(today - i),
     additional       |-> "None",
     note             |-> "",
     total_pages_done |-> 2 + i,
     created_at       |-> Clock0,
     updated_at       |-> Clock0]

seed_data(today) == {seed_task(today, i) : i \in 1..SeedDays}

Init ==
    /\ \E s \in InitStores :
          /\ users = s.users
          /\ tasks = IF s.seeded THEN seed_data(Day0) ELSE {}
    /\ nextId = 3 + SeedDays
    /\ now = Clock0
    /\ ops = 0
    /\ cl = [c \in Clients |-> Client({}, "idle", NoReq, {}, EmptyDoc, NoResp)]

(****************************** clients ************************************)
\* the clients that hold a token and have not sent their request yet
Waiting == {c \in Clients : cl[c].pc = "idle" /\ cl[c].tok # {}}

\* a client takes a token only if a request may still follow it
MayStart == Cardinality(Waiting) < MaxOps - ops

\* a response is handed to its client before the service takes another step
NoneDone == \A c \in Clients : cl[c].pc # "done"

Deliver(c) ==
    /\ cl[c].pc = "done"
    /\ cl' = [cl EXCEPT ![c] = Client(cl[c].tok, "idle", NoReq, {}, EmptyDoc,
                                      NoResp)]
    /\ UNCHANGED <<users, tasks, nextId, now, ops>>

Finish(c, resp) ==
    cl' = [cl EXCEPT ![c].pc = "done", ![c].resp = resp, ![c].loc = EmptyDoc]

Goto(c, pc, loc) ==
    cl' = [cl EXCEPT ![c].pc = pc, ![c].loc = loc]

\* POST /api/login; the client keeps the token of a successful login for
\* its next request (clients are interchangeable: they log in in order)
login(c, credentials) ==
    LET email    == StripLower(Get(credentials, "email", ""))
        password == Strip(Get(credentials, "password", ""))
        found    == FindOne(UsersByEmail(email))
    IN  /\ NoneDone /\ MayStart
        /\ cl[c].pc = "idle" /\ cl[c].tok = {}
        /\ \A b \in Clients : b < c => cl[b].tok # {} \/ cl[b].pc # "idle"
        /\ email # "" /\ password # ""
        /\ found # {}
        /\ LET user == CHOOSE u \in found : TRUE
           IN  /\ password = Get(user, "password", "")
               /\ cl' = [cl EXCEPT ![c].tok =
                            {create_token(user["uid"], user["email"],
                                          Get(user, "role", "user"))}]
        /\ UNCHANGED <<users, tasks, nextId, now, ops>>

Credentials ==
    { [email |-> "a1@x", password |-> "adminpw"],
      [email |-> " U1@X ", password |-> "userpw"],
      [email |-> "u1@x", password |-> "adminpw"] }

Login(c) == \E cr \in Credentials : login(c, cr)

\* a client presents a token the service did not sign
ForgedToken ==
    [uid |-> "u1", email |-> "u1@x", role |-> "admin",
     exp |-> Clock0 + 1000, iat |-> Clock0, key |-> "guess"]

Forge(c) ==
    /\ NoneDone /\ MayStart
    /\ cl[c].pc = "idle" /\ cl[c].tok = {}
    /\ cl' = [cl EXCEPT ![c].tok = {ForgedToken}]
    /\ UNCHANGED <<users, tasks, nextId, now, ops>>

\* the clock advances by a day, as long as a request may still read it
Tick ==
    /\ NoneDone
    /\ ops < MaxOps \/ \E c \in Clients : cl[c].pc # "idle"
    /\ now + 24 <= Clock0 + 24 * MaxTicks
    /\ now' = now + 24
    /\ UNCHANGED <<users, tasks, nextId, ops, cl>>

(**************************** Access Gate **********************************)
\* the outcome of Depends(get_current_user) for a bearer token
get_current_user(token) ==
    LET decoded == verify_token(token)
    IN  IF decoded = {} THEN [status |-> 401, user |-> {}]
        ELSE LET claims == CHOOSE x \in decoded : TRUE
                 found  == FindOne(UsersByUid(claims.uid))
             IN  IF found = {} THEN [status |-> 401, user |-> {}]
                 ELSE LET user == CHOOSE u \in found : TRUE
                      IN  [status |-> 200,
                           user |-> {IF Get(user, "email", "") = ""
                                     THEN Overlay(user, [email |-> claims.email])
                                     ELSE user}]

RoleOf(g) == Get(CHOOSE u \in g.user : TRUE, "role", "None")

require_user(g) ==
    IF g.status # 200 THEN g
    ELSE IF RoleOf(g) \notin {"user", "admin"}
         THEN [status |-> 403, user |-> {}]
         ELSE g

require_admin_as_unauthenticated(g) ==
    IF g.status # 200 THEN g
    ELSE IF RoleOf(g) # "admin"
         THEN [status |-> 401, user |-> {}]
         ELSE g

require_admin(g) ==
    IF g.status # 200 THEN g
    ELSE IF RoleOf(g) # "admin"
         THEN [status |-> 403, user |-> {}]
         ELSE g

\* the dependency the endpoint of this kind declares
Depends(kind, token) ==
    IF kind \in AdminKinds THEN require_admin(get_current_user(token))
    ELSE IF kind \in UserKinds THEN require_user(get_current_user(token))
    ELSE get_current_user(token)

\* a client sends a request with the token it holds, and the gate the
\* endpoint declares resolves the token (one read of the User Store)
Gate(c) ==
    /\ NoneDone
    /\ cl[c].pc = "idle"
    /\ cl[c].tok # {}
    /\ ops < MaxOps
    /\ ops' = ops + 1
    /\ \E r \in Requests :
          LET g == Depends(r.kind, CHOOSE t \in cl[c].tok : TRUE)
          IN  cl' = [cl EXCEPT ![c] =
                        IF g.status # 200
                        THEN Client({}, "done", r, {}, EmptyDoc,
                                    Fail(g.status))
                        ELSE Client({}, "run", r, g.user, EmptyDoc, NoResp)]
    /\ UNCHANGED <<users, tasks, nextId, now>>

\* the user document the gate attached to the request
Caller(c) == CHOOSE u \in cl[c].user : TRUE

Running(c, kind) == NoneDone /\ cl[c].pc = "run" /\ cl[c].req.kind = kind

\* the request is at the handler step `pc`, after its first store operation
At(c, pc) == NoneDone /\ cl[c].pc = pc

\* GET /api/me
get_me(c) ==
    /\ Running(c, "me")
    /\ Finish(c, Reply(200, [uid   |-> Get(Caller(c), "uid", ""),
                             email |-> Get(Caller(c), "email", ""),
                             role  |-> Get(Caller(c), "role", "None")]))
    /\ UNCHANGED <<users, tasks, nextId, now, ops>>

(**************************** Task Service *********************************)
\* the template of get_today_task for a day without a record
default_task_blank(target_date, user_doc) ==
    [date             |-> target_date,
     assign_website   |-> "",
     task_assign_no   |-> "",
     other_tasks      |-> "",
     status           |-> "Not Started",
     total_pages_done |-> 0]

default_task(target_date, user_doc) ==
    [date             |-> target_date,
     assign_website   |-> Get(user_doc, "assign_website", ""),
     task_assign_no   |-> Get(user_doc, "task_assign_no", ""),
     other_tasks      |-> Get(user_doc, "other_tasks", ""),
     status           |-> "Not Started",
     total_pages_done |-> 0]

\* GET /api/tasks/today, up to db.tasks.find_one
get_today_task(c) ==
    /\ Running(c, "today")
    /\ LET target_date == IF cl[c].req.date # NoDate THEN cl[c].req.date
                          ELSE get_today_str
           uid  == Caller(c)["uid"]
           task == FindOne(TasksAt(uid, target_date))
       IN  IF task # {}
           THEN Finish(c, Reply(200, [exists |-> TRUE,
                                      task   |-> {NoId(d) : d \in task}]))
           ELSE Goto(c, "template", [target_date |-> target_date])
    /\ UNCHANGED <<users, tasks, nextId, now, ops>>

\* GET /api/tasks/today, from db.users.find_one on
get_today_template(c) ==
    /\ At(c, "template")
    /\ LET user_doc == FindOne(UsersByUid(Caller(c)["uid"]))
       IN  Finish(c, Reply(200,
               [exists |-> FALSE,
                task   |-> {default_task(cl[c].loc.target_date, u) :
                               u \in user_doc}]))
    /\ UNCHANGED <<users, tasks, nextId, now, ops>>

\* the find_one of get_previous_task
PreviousOfAnyDate(uid, target_date) ==
    LET S == {d \in tasks : d["user_id"] = uid}
    IN  IF S = {} THEN {} ELSE {Latest(S)}

PreviousOf(uid, target_date) ==
    LET S == {d \in tasks : d["user_id"] = uid /\ d["date"] < target_date}
    IN  IF S = {} THEN {} ELSE {Latest(S)}

\* GET /api/tasks/previous
get_previous_task(c) ==
    /\ Running(c, "previous")
    /\ LET target_date == IF cl[c].req.date # NoDate THEN cl[c].req.date
                          ELSE get_today_str
           task == PreviousOf(Caller(c)["uid"], target_date)
       IN  Finish(c, Reply(200, [exists |-> task # {},
                                 task   |-> {NoId(d) : d \in task}]))
    /\ UNCHANGED <<users, tasks, nextId, now, ops>>

\* the fields of the request model of POST /api/tasks/save
TaskSaveFields ==
    {"status", "assign_website", "task_assign_no", "other_tasks",
     "task_updates", "additional", "note", "total_pages_done"}

\* TaskSave(**body).dict(exclude_unset=True): keys the model does not
\* declare are dropped, and only the fields the client sent are listed
TaskSave(body) == Restrict(body, TaskSaveFields)

\* POST /api/tasks/save
save_task(c) ==
    /\ Running(c, "save")
    /\ LET user      == Caller(c)
           uid       == user["uid"]
           today     == get_today_str
           task_data == TaskSave(cl[c].req.body)
       IN  IF "date" \notin TaskSaveFields
           THEN \* task_data.date raises AttributeError: the model has no
                \* such field, and the request ends as a server error
                /\ Finish(c, Fail(500))
                /\ UNCHANGED <<tasks, nextId>>
           ELSE LET target_date == IF Get(task_data, "date", NoDate) # NoDate
                                   THEN task_data["date"] ELSE today
                    day_name    == get_day_name(target_date)
                    update_doc  == Overlay(Without(task_data, {"date"}),
                                           [updated_at |-> now])
                    insert_doc  ==
                        [user_id    |-> uid,
                         date       |-> target_date,
                         owner_name |-> IF Get(user, "name", "") # ""
                                        THEN user["name"]
                                        ELSE Get(user, "email", "Unknown"),
                         planner    |-> day_name,
                         created_at |-> now]
                    matched     == TasksAt(uid, target_date)
                IN  /\ IF matched # {}
                       THEN LET d == First(matched)
                            IN  /\ tasks' = (tasks \ {d})
                                              \cup {Overlay(d, update_doc)}
                                /\ nextId' = nextId
                       ELSE /\ tasks' = tasks \cup
                                   {Overlay(Overlay(insert_doc, update_doc),
                                            [_id |-> nextId])}
                            /\ nextId' = nextId + 1
                    /\ Finish(c, Reply(200, [message |-> "Task saved"]))
    /\ UNCHANGED <<users, now, ops>>

\* GET /api/tasks/history
get_task_history(c) ==
    /\ Running(c, "history")
    /\ LET uid == Caller(c)["uid"]
       IN  Finish(c, Reply(200,
               [tasks |-> SortDesc({d \in tasks : d["user_id"] = uid},
                                   cl[c].req.limit)]))
    /\ UNCHANGED <<users, tasks, nextId, now, ops>>

(**************************** Admin Service ********************************)
\* GET /api/admin/tasks
get_all_tasks(c) ==
    /\ Running(c, "listTasks")
    /\ LET r == cl[c].req
           S == {d \in tasks :
                    /\ r.date # NoDate => d["date"] = r.date
                    /\ r.user_id # "" => d["user_id"] = r.user_id}
       IN  Finish(c, Reply(200, [tasks |-> SortDesc(S, r.limit)]))
    /\ UNCHANGED <<users, tasks, nextId, now, ops>>

\* the user_updates dictionary of admin_update_task
user_updates_none(task_update) == EmptyDoc

user_updates(task_update) == Restrict(task_update, StickyFields)

\* the new_task dictionary of admin_update_task, overlaid with the updates
new_task(user_id, date, user, admin, task_update) ==
    Overlay([user_id          |-> user_id,
             date             |-> date,
             owner_name       |-> Get(user, "name", "Unknown"),
             planner          |-> "Admin (" \o Get(admin, "name", "Admin")
                                            \o ")",
             status           |-> "Not Started",
             assign_website   |-> "",
             task_assign_no   |-> "",
             other_tasks      |-> "",
             task_updates     |-> "",
             additional       |-> "",
             note             |-> "",
             total_pages_done |-> 0,
             created_at       |-> now,
             updated_at       |-> now],
            task_update)

\* db.users.update_one({"uid": uid}, {"$set": upd})
UsersAfterSet(uid, upd) ==
    LET found == FindOne(UsersByUid(uid))
    IN  (users \ found) \cup {Overlay(u, upd) : u \in found}

\* PUT /api/admin/task/{user_id}/{date}, up to the first update_one
admin_update_task(c) ==
    /\ Running(c, "upsert")
    /\ LET r           == cl[c].req
           task_update == Overlay(r.body, [updated_at |-> now])
           matched     == FindOne(TasksAt(r.user_id, r.date))
       IN  IF matched = {}
           THEN /\ Goto(c, "finduser", [task_update |-> task_update])
                /\ UNCHANGED tasks
           ELSE LET d   == CHOOSE x \in matched : TRUE
                    new == Overlay(d, task_update)
                IN  IF ~IndexAdmits(tasks \ {d}, new)
                    THEN \* DuplicateKeyError, not caught
                         /\ Finish(c, Fail(500))
                         /\ UNCHANGED tasks
                    ELSE /\ tasks' = (tasks \ {d}) \cup {new}
                         /\ IF user_updates(task_update) = EmptyDoc
                            THEN Finish(c, Reply(200,
                                   [message |-> "Task updated successfully"]))
                            ELSE Goto(c, "persist",
                                      [task_update |-> task_update,
                                       message |-> "Task updated successfully"])
    /\ UNCHANGED <<users, nextId, now, ops>>

\* admin_update_task: db.users.find_one of the target user
admin_update_find_user(c) ==
    /\ At(c, "finduser")
    /\ LET user == FindOne(UsersByUid(cl[c].req.user_id))
       IN  IF user = {}
           THEN Finish(c, Fail(404))
           ELSE Goto(c, "insert", [task_update |-> cl[c].loc.task_update,
                                   user |-> CHOOSE u \in user : TRUE])
    /\ UNCHANGED <<users, tasks, nextId, now, ops>>

\* admin_update_task: db.tasks.insert_one of the synthesized record
admin_update_insert(c) ==
    /\ At(c, "insert")
    /\ LET r           == cl[c].req
           task_update == cl[c].loc.task_update
           doc         == Overlay(new_task(r.user_id, r.date, cl[c].loc.user,
                                           Caller(c), task_update),
                                  [_id |-> nextId])
       IN  IF ~IndexAdmits(tasks, doc)
           THEN \* DuplicateKeyError, not caught
                /\ Finish(c, Fail(500))
                /\ UNCHANGED <<tasks, nextId>>
           ELSE /\ tasks' = tasks \cup {doc}
                /\ nextId' = nextId + 1
                /\ IF user_updates(task_update) = EmptyDoc
                   THEN Finish(c, Reply(200,
                          [message |-> "Task created successfully"]))
                   ELSE Goto(c, "persist",
                             [task_update |-> task_update,
                              message |-> "Task created successfully"])
    /\ UNCHANGED <<users, now, ops>>

\* admin_update_task: db.users.update_one of the sticky defaults
admin_update_persist(c) ==
    /\ At(c, "persist")
    /\ users' = UsersAfterSet(cl[c].req.user_id,
                              user_updates(cl[c].loc.task_update))
    /\ Finish(c, Reply(200, [message |-> cl[c].loc.message]))
    /\ UNCHANGED <<tasks, nextId, now, ops>>

\* DELETE /api/admin/task/{user_id}/{date}
admin_delete_task(c) ==
    /\ Running(c, "deleteTask")
    /\ LET found == FindOne(TasksAt(cl[c].req.user_id, cl[c].req.date))
       IN  /\ tasks' = tasks \ found
           /\ IF found = {} THEN Finish(c, Fail(404))
              ELSE Finish(c, Reply(200, EmptyDoc))
    /\ UNCHANGED <<users, nextId, now, ops>>

\* POST /api/admin/create-user, up to db.users.find_one
create_user(c) ==
    /\ Running(c, "createUser")
    /\ LET user_data == cl[c].req.body
           email     == StripLower(Get(user_data, "email", ""))
           password  == Strip(Get(user_data, "password", ""))
           name      == Strip(Get(user_data, "name", ""))
       IN  IF email = "" \/ password = "" \/ name = ""
           THEN Finish(c, Fail(400))
           ELSE IF FindOne(UsersByEmail(email)) # {}
                THEN Finish(c, Fail(400))
                ELSE Goto(c, "insertuser", [email |-> email,
                                            password |-> password,
                                            name |-> name])
    /\ UNCHANGED <<users, tasks, nextId, now, ops>>

\* create_user: db.users.insert_one
create_user_insert(c) ==
    /\ At(c, "insertuser")
    /\ LET uid      == "n" \o ToString(nextId)
           new_user == [_id        |-> nextId,
                        uid        |-> uid,
                        email      |-> cl[c].loc.email,
                        name       |-> cl[c].loc.name,
                        password   |-> cl[c].loc.password,
                        role       |-> "user",
                        created_at |-> now,
                        is_active  |-> TRUE]
       IN  /\ users' = users \cup {new_user}
           /\ nextId' = nextId + 1
           /\ Finish(c, Reply(200, [message |-> "User created successfully",
                                    uid |-> uid]))
    /\ UNCHANGED <<tasks, now, ops>>

\* GET /api/admin/users
get_all_users(c) ==
    /\ Running(c, "listUsers")
    /\ Finish(c, Reply(200,
           [users |-> {NoId(u) : u \in {x \in users :
                                           Get(x, "role", "None") # "admin"}}]))
    /\ UNCHANGED <<users, tasks, nextId, now, ops>>

\* DELETE /api/admin/user/{uid}: the HTTPException(404) raised inside the try
\* block is caught by `except Exception` and raised again as a 400
delete_user(c) ==
    /\ Running(c, "deleteUser")
    /\ LET found == FindOne(UsersByUid(cl[c].req.user_id))
       IN  /\ users' = users \ found
           /\ IF found = {} THEN Finish(c, Fail(400))
              ELSE Finish(c, Reply(200,
                     [message |-> "User deleted successfully"]))
    /\ UNCHANGED <<tasks, nextId, now, ops>>

\* PUT /api/admin/user/{uid}/password
admin_reset_password(c) ==
    /\ Running(c, "resetPassword")
    /\ LET new_password == Get(cl[c].req.body, "password", "")
       IN  IF new_password = "" \/ Len(new_password) < 6
           THEN Finish(c, Fail(400)) /\ UNCHANGED users
           ELSE /\ users' = UsersAfterSet(cl[c].req.user_id,
                                          [password |-> new_password])
                /\ IF UsersByUid(cl[c].req.user_id) = {}
                   THEN Finish(c, Fail(404))
                   ELSE Finish(c, Reply(200,
                          [message |-> "Password updated successfully"]))
    /\ UNCHANGED <<tasks, nextId, now, ops>>

expected_cols ==
    <<"date", "owner_name", "user_id", "status", "total_pages_done",
      "assign_website", "task_updates", "planner", "task_assign_no",
      "other_tasks", "additional", "note">>

\* GET /api/admin/export/tasks: the rows of the sheet, in order
export_tasks(c) ==
    /\ Running(c, "export")
    /\ LET S    == {d \in tasks :
                       cl[c].req.date # NoDate => d["date"] = cl[c].req.date}
           rows == SortDesc(S, Cardinality(S))
       IN  IF rows = <<>>
           THEN Finish(c, Fail(404))
           ELSE Finish(c, Reply(200,
                  [columns |-> expected_cols,
                   rows    |-> [i \in 1..Len(rows) |->
                                  [j \in 1..Len(expected_cols) |->
                                     IF expected_cols[j] \in DOMAIN rows[i]
                                     THEN {rows[i][expected_cols[j]]}
                                     ELSE {}]]]))
    /\ UNCHANGED <<users, tasks, nextId, now, ops>>

(**************************** specification ********************************)
Next ==
    \/ Tick
    \/ \E c \in Clients :
          \/ Login(c)
          \/ Forge(c)
          \/ Deliver(c)
          \/ Gate(c)
          \/ get_me(c)
          \/ get_today_task(c)
          \/ get_today_template(c)
          \/ get_previous_task(c)
          \/ save_task(c)
          \/ get_task_history(c)
          \/ get_all_tasks(c)
          \/ admin_update_task(c)
          \/ admin_update_find_user(c)
          \/ admin_update_insert(c)
          \/ admin_update_persist(c)
          \/ admin_delete_task(c)
          \/ create_user(c)
          \/ create_user_insert(c)
          \/ get_all_users(c)
          \/ delete_user(c)
          \/ admin_reset_password(c)
          \/ export_tasks(c)

Spec == Init /\ [][Next]_vars

TypeOK ==
    /\ now \in Clock0..(Clock0 + 24 * MaxTicks)
    /\ ops \in 0..MaxOps
    /\ \A c \in Clients : cl[c].resp.status \in {0, 200, 400, 401, 403, 404, 500}

(******************************* claims ************************************)
\* a request of this kind has its response, and the gate let it through
Answered(c, kind) ==
    cl[c].pc = "done" /\ cl[c].req.kind = kind /\ cl[c].user # {}

\* the day a request's Optional date parameter selects
DateOr(date) == IF date # NoDate THEN date ELSE get_today_str

\* C1: in every reachable state the Task Store holds at most one record for
\* each (user_id, date) key, whatever save, admin upsertTask and deleteTask
\* requests ran and however they interleaved.
C1_OneTaskPerKey ==
    \A d \in tasks : \A e \in tasks : TaskKey(d) = TaskKey(e) => d = e

\* C1 witness: the store holds a record and an admin upsert that tried to
\* write a second record under a taken key was turned away by the index.
C1_Witness ==
    \E c \in Clients :
        /\ Answered(c, "upsert")
        /\ cl[c].resp.status = 500
        /\ tasks # {}

\* the payload names neither key field, so the record belongs to the key
\* of the request path
KeyFree(body) == DOMAIN body \cap {"user_id", "date"} = {}

\* C2: when two requests race to create the task of one key, neither ends
\* in an error and one record results that holds the fields of both
\* payloads.  Stated for admin upsertTask: request c found no record for the
\* key and found the target user, so it is about to insert, while request b
\* for the same key is in flight too; c then ends as a success and the
\* record of the key holds the fields of c's payload and of b's.
C2_RacingCreatesBothSucceed ==
    [][\A c \in Clients : \A b \in Clients \ {c} :
          (/\ cl[c].pc = "insert" /\ cl'[c].pc # "insert"
           /\ cl[b].pc \in {"finduser", "insert", "persist"}
           /\ cl[b].req.user_id = cl[c].req.user_id
           /\ cl[b].req.date = cl[c].req.date
           /\ KeyFree(cl[c].req.body) /\ KeyFree(cl[b].req.body))
          => /\ cl'[c].pc = "done" => cl'[c].resp.status = 200
             /\ \E d \in tasks' :
                   /\ TaskKey(d) = <<cl[c].req.user_id, cl[c].req.date>>
                   /\ \A k \in DOMAIN cl[c].req.body :
                         k \in DOMAIN d /\ d[k] = cl[c].req.body[k]
                   /\ cl[b].pc = "persist" =>
                         \A k \in DOMAIN cl[b].req.body :
                            k \in DOMAIN d /\ d[k] = cl[b].req.body[k]]_vars

\* C3: a save on an existing (user, date) record writes the payload's fields
\* and updated_at into that record and leaves every other stored field as it
\* was.
C3_SaveIsPartialUpdate ==
    [][\A c \in Clients :
          (Running(c, "save") /\ cl'[c].pc = "done")
          => LET body   == cl[c].req.body
                 fields == DOMAIN body \ {"date"}
                 old    == TasksAt(Caller(c)["uid"],
                                   DateOr(Get(body, "date", NoDate)))
             IN  \A d \in old :
                    \E e \in tasks' :
                       /\ e["_id"] = d["_id"]
                       /\ \A k \in fields : k \in DOMAIN e /\ e[k] = body[k]
                       /\ e["updated_at"] = now
                       /\ \A k \in DOMAIN d \ (fields \cup {"updated_at"}) :
                             k \in DOMAIN e /\ e[k] = d[k]]_vars

\* C4: a save that passed the gate succeeds, and the Task Store then holds a
\* record under (user, payload.date), or (user, today) when the payload has
\* no date, whose payload fields hold the saved values.
C4_SaveWritesRecord ==
    \A c \in Clients :
        Answered(c, "save")
        => LET body == cl[c].req.body
           IN  /\ cl[c].resp.status = 200
               /\ \E d \in TasksAt(Caller(c)["uid"],
                                   DateOr(Get(body, "date", NoDate))) :
                     \A k \in DOMAIN body \ {"date"} :
                        k \in DOMAIN d /\ d[k] = body[k]

\* the template a getToday response carries for the stored user document u
IsTemplateOf(t, u) ==
    /\ t["assign_website"] = Get(u, "assign_website", "")
    /\ t["task_assign_no"] = Get(u, "task_assign_no", "")
    /\ t["other_tasks"] = Get(u, "other_tasks", "")
    /\ t["status"] = "Not Started"
    /\ t["total_pages_done"] = 0

\* C5 (as amended): getToday goes on to build a template exactly when the
\* key has no record; it then returns exists=false and leaves both stores
\* unchanged, and the template carries the sticky defaults the User Store
\* holds for the caller at that moment, status "Not Started" and zero pages
\* done -- unless the caller's account was deleted after the gate resolved
\* it, in which case the task is null.
C5_TemplateFromStickyDefaults ==
    [][\A c \in Clients :
          /\ (Running(c, "today") /\ cl'[c] # cl[c])
             => /\ tasks' = tasks /\ users' = users
                /\ (TasksAt(Caller(c)["uid"], DateOr(cl[c].req.date)) = {})
                   <=> (cl'[c].pc = "template")
          /\ (cl[c].pc = "template" /\ cl'[c].pc = "done")
             => LET stored == UsersByUid(Caller(c)["uid"])
                    r      == cl'[c].resp
                IN  /\ tasks' = tasks /\ users' = users
                    /\ r.status = 200
                    /\ r.body.exists = FALSE
                    /\ stored = {} => r.body.task = {}
                    /\ stored # {} =>
                          \E t \in r.body.task :
                             /\ r.body.task = {t}
                             /\ \A u \in stored : IsTemplateOf(t, u)]_vars

\* C5 witness: a getToday answered exists=false with a template that shows
\* sticky defaults the user has set.
C5_Witness ==
    \E c \in Clients :
        /\ Answered(c, "today")
        /\ cl[c].resp.body.exists = FALSE
        /\ \E t \in cl[c].resp.body.task : t["assign_website"] \in {"w0", "w1"}

\* C5 (as stated): every getToday answered exists=false carries a template.
C5_AlwaysATemplate ==
    \A c \in Clients :
        (Answered(c, "today") /\ cl[c].resp.body.exists = FALSE)
        => cl[c].resp.body.task # {}

\* C6: getPrevious(user, D) returns exists=false and a null task when the
\* caller has no record with date < D; otherwise it returns exists=true and
\* the caller's own record of largest date among those with date < D -- never
\* a record with date >= D, never another user's record.
C6_PreviousIsLatestEarlier ==
    \A c \in Clients :
        Answered(c, "previous")
        => LET uid  == Caller(c)["uid"]
               D    == DateOr(cl[c].req.date)
               mine == {d \in tasks : d["user_id"] = uid /\ d["date"] < D}
               r    == cl[c].resp.body
           IN  /\ cl[c].resp.status = 200
               /\ mine = {} => (r.exists = FALSE /\ r.task = {})
               /\ mine # {} =>
                     /\ r.exists = TRUE
                     /\ \E t \in r.task :
                           /\ r.task = {t}
                           /\ t["user_id"] = uid
                           /\ t["date"] < D
                           /\ \A e \in mine : e["date"] <= t["date"]
                           /\ \E e \in mine : NoId(e) = t

\* C6 witness: getPrevious answered exists=true while the caller had two or
\* more records before D and also a record on or after D.
C6_Witness ==
    \E c \in Clients :
        /\ Answered(c, "previous")
        /\ cl[c].resp.body.exists = TRUE
        /\ LET uid == Caller(c)["uid"]
               D   == DateOr(cl[c].req.date)
           IN  /\ Cardinality({d \in tasks : d["user_id"] = uid
                                               /\ d["date"] < D}) >= 2
               /\ \E d \in tasks : d["user_id"] = uid /\ d["date"] >= D

\* C7: once an admin upsertTask has succeeded, on the update path or on the
\* create path, the target user's stored assign_website, task_assign_no and
\* other_tasks hold the payload's values for those of the three fields the
\* payload contains, and the template getToday builds for that user shows
\* them.
C7_UpsertSetsStickyDefaults ==
    \A c \in Clients :
        (Answered(c, "upsert") /\ cl[c].resp.status = 200)
        => \A u \in UsersByUid(cl[c].req.user_id) :
              \A k \in DOMAIN cl[c].req.body \cap StickyFields :
                 /\ k \in DOMAIN u
                 /\ u[k] = cl[c].req.body[k]
                 /\ default_task(cl[c].req.date, u)[k] = cl[c].req.body[k]

\* C7 witness: a successful admin upsertTask whose payload carries a sticky
\* field, for a target user that exists.
C7_Witness ==
    \E c \in Clients :
        /\ Answered(c, "upsert")
        /\ cl[c].resp.status = 200
        /\ "assign_website" \in DOMAIN cl[c].req.body
        /\ UsersByUid(cl[c].req.user_id) # {}

\* C8: the record admin upsertTask creates for a key without a record takes
\* the target user's stored assign_website, task_assign_no and other_tasks
\* for those of the three fields the payload does not supply.
C8_CreatedFromUserDefaults ==
    [][\A c \in Clients :
          (/\ cl[c].pc = "insert" /\ cl'[c].pc # "insert" /\ tasks' # tasks
           /\ KeyFree(cl[c].req.body))
          => \E d \in tasks' \ tasks :
                \A k \in StickyFields \ DOMAIN cl[c].req.body :
                   d[k] = Get(cl[c].loc.user, k, "")]_vars

\* the token client c holds
Token(c) == CHOOSE t \in cl[c].tok : TRUE

\* client c sends a request in this step
Sends(c) == cl[c].pc = "idle" /\ cl[c].tok # {} /\ cl'[c].pc # "idle"

\* C9: a request to an admin endpoint that bears a valid token issued with
\* role "user" for an account that exists is answered 403, not 401, and
\* changes neither the Task Store nor the User Store.
C9_UserTokenIsForbidden ==
    [][\A c \in Clients :
          (/\ Sends(c)
           /\ cl'[c].req.kind \in AdminKinds
           /\ verify_token(Token(c)) # {}
           /\ Token(c).role = "user"
           /\ UsersByUid(Token(c).uid) # {})
          => /\ cl'[c].pc = "done"
             /\ cl'[c].resp.status = 403
             /\ tasks' = tasks /\ users' = users]_vars

\* C9 witness: a request to an admin endpoint has been answered 403.
C9_Witness ==
    \E c \in Clients :
        /\ cl[c].pc = "done"
        /\ cl[c].req.kind \in AdminKinds
        /\ cl[c].resp.status = 403

\* C10: a request bearing a validly signed, unexpired token is answered 401
\* whenever the account the token names is missing from the User Store or
\* has is_active false.
C10_GoneOrInactiveIsUnauthenticated ==
    [][\A c \in Clients :
          (/\ Sends(c)
           /\ verify_token(Token(c)) # {}
           /\ \A u \in UsersByUid(Token(c).uid) :
                 Get(u, "is_active", TRUE) = FALSE)
          => /\ cl'[c].pc = "done"
             /\ cl'[c].resp.status = 401]_vars

\* C11: after any sequence and interleaving of createUser requests, no two
\* accounts of the User Store have the same email.
C11_EmailUnique ==
    \A u \in users : \A v \in users :
        Get(u, "email", "") = Get(v, "email", "") => u = v

\* C12: every task record has a status from the moment it is created: the
\* record a save creates for a key without a record, from a payload that
\* gives no status, has status "Pending"; the record admin upsertTask
\* creates from a payload that gives no status has status "Not Started".
C12_CreatedWithStatus ==
    [][\A c \in Clients :
          /\ (/\ Running(c, "save") /\ cl'[c].pc = "done"
              /\ "status" \notin DOMAIN cl[c].req.body
              /\ TasksAt(Caller(c)["uid"],
                         DateOr(Get(cl[c].req.body, "date", NoDate))) = {})
             => \E d \in tasks' \ tasks :
                   /\ d["user_id"] = Caller(c)["uid"]
                   /\ "status" \in DOMAIN d
                   /\ d["status"] = "Pending"
          /\ (/\ cl[c].pc = "insert" /\ cl'[c].pc # "insert" /\ tasks' # tasks
              /\ "status" \notin DOMAIN cl[c].req.body)
             => \E d \in tasks' \ tasks :
                   /\ "status" \in DOMAIN d
                   /\ d["status"] = "Not Started"]_vars

\* the step in which an admin upsertTask writes its record and goes on to
\* succeed: the update of the matched record, or the insert of a new one
UpsertWrites(c) ==
    /\ cl[c].req.kind = "upsert"
    /\ cl[c].pc \in {"run", "insert"}
    /\ cl'[c].pc \in {"persist", "done"}
    /\ cl'[c].pc = "done" => cl'[c].resp.status = 200

\* C13: once admin upsertTask(user_id, date, fields) has written its record
\* and goes on to return success, the Task Store holds a record whose key is
\* the (user_id, date) of the request path, whatever the payload's field
\* names are -- a payload that carries user_id or date included.
C13_RecordUnderPathKey ==
    [][\A c \in Clients :
          UpsertWrites(c)
          => TasksAt(cl[c].req.user_id, cl[c].req.date)' # {}]_vars

\* every task record in the response client c has received is the caller's
ReturnsOwn(c) ==
    (cl[c].pc = "done" /\ cl[c].user # {} /\ cl[c].resp.status = 200)
    => LET uid == Caller(c)["uid"]
           r   == cl[c].resp.body
       IN  CASE cl[c].req.kind \in {"today", "previous"} ->
                   \A t \in r.task :
                      "user_id" \in DOMAIN t => t["user_id"] = uid
             [] cl[c].req.kind = "history" ->
                   \A i \in 1..Len(r.tasks) : r.tasks[i]["user_id"] = uid
             [] OTHER -> TRUE

\* C14: getToday, getPrevious, getHistory and save, called by user U, return
\* only task records whose user_id is U's uid, create or change no task
\* record of another user, and change no record of the User Store -- at the
\* gate and at every step of the handler.
C14_UserOpsStayWithinCaller ==
    [][\A c \in Clients :
          (cl'[c] # cl[c] /\ cl'[c].req.kind \in UserKinds)
          => /\ users' = users
             /\ \A d \in (tasks' \ tasks) \cup (tasks \ tasks') :
                   /\ cl'[c].user # {}
                   /\ \A u \in cl'[c].user : d["user_id"] = u["uid"]
             /\ ReturnsOwn(c)']_vars

\* C14 witness: a getToday was answered with a template for a date on which
\* the store holds a record of another user.
C14_Witness ==
    \E c \in Clients :
        /\ Answered(c, "today")
        /\ cl[c].resp.status = 200
        /\ cl[c].resp.body.exists = FALSE
        /\ cl[c].resp.body.task # {}
        /\ \E d \in tasks :
              /\ d["date"] = DateOr(cl[c].req.date)
              /\ d["user_id"] # Caller(c)["uid"]

====
